---- MODULE Spec2Model ----
(***************************************************************************)
(* The delivery dispatch workflow of src/dispatcher.py (the dispatcher's   *)
(* pages) and src/drivertest.py (the driver's dashboard) over the shared   *)
(* document store: the collections "drivers" and "deliveries", and the     *)
(* push notifications the dispatcher starts.                               *)
(*                                                                         *)
(* Text is a sequence of one-character strings, so that strip() and        *)
(* lower() are computed as Python computes them.  A document is a function *)
(* from its field names to their values; a field a document does not hold  *)
(* is outside its DOMAIN.  The value of every input widget of a script run *)
(* (text fields, select box, buttons) is an input of that run.             *)
(***************************************************************************)
EXTENDS Integers, Sequences, FiniteSets, TLC

VARIABLES
    drivers,     \* collection "drivers": driver code -> document
    deliveries,  \* collection "deliveries": sequence of documents, id = index
    pushes,      \* the notification threads started, in order
    now,         \* the clock datetime.now() reads
    run,         \* per driver session: the script run in progress
    last         \* the last script run: its page, inputs and message shown

vars == <<drivers, deliveries, pushes, now, run, last>>

\* ------------------------------------------------------------------ bounds
MaxDeliveries == 2
MaxTime == 1

\* ------------------------------------------------------- inputs (widgets)
NameInputs == {<<>>, <<"n">>}
CodeInputs == {<<>>, <<"A", " ">>}
PhoneInputs == {<<"7">>}
TokenInputs == {<<>>, <<" ", "t">>}
ClientInputs == {<<>>, <<"c">>}
LocationInputs == {<<>>, <<"l">>}
InvoiceInputs == {<<>>, <<"1">>, <<" ", "1">>, <<"2">>}
ReasonInputs == {<<>>, <<" ">>, <<" ", "r">>}
Sessions == {"s1", "s2"}

\* ------------------------------------------------------------ Python text
\* the cased characters, lower case and upper case in step
lowercase == <<"a", "b", "c", "d", "e", "f", "g", "h", "i", "j", "k", "l", "m",
               "n", "o", "p", "q", "r", "s", "t", "u", "v", "w", "x", "y", "z">>
uppercase == <<"A", "B", "C", "D", "E", "F", "G", "H", "I", "J", "K", "L", "M",
               "N", "O", "P", "Q", "R", "S", "T", "U", "V", "W", "X", "Y", "Z">>

\* str.lower() and str.upper() as tables of the cased characters
toLower ==
    [c \in {uppercase[i] : i \in 1..Len(uppercase)} |->
        lowercase[CHOOSE i \in 1..Len(uppercase) : uppercase[i] = c]]
toUpper ==
    [c \in {lowercase[i] : i \in 1..Len(lowercase)} |->
        uppercase[CHOOSE i \in 1..Len(lowercase) : lowercase[i] = c]]

\* str.isalpha() on one character
cased(c) == c \in DOMAIN toLower \/ c \in DOMAIN toUpper

\* str.lower() on one character
lowerChar(c) == IF c \in DOMAIN toLower THEN toLower[c] ELSE c

\* str.upper() on one character
upperChar(c) == IF c \in DOMAIN toUpper THEN toUpper[c] ELSE c

\* str.lower()
lower(s) == [i \in 1..Len(s) |-> lowerChar(s[i])]

RECURSIVE lstrip(_)
lstrip(s) == IF s # <<>> /\ Head(s) = " " THEN lstrip(Tail(s)) ELSE s

RECURSIVE rstrip(_)
rstrip(s) == IF s # <<>> /\ s[Len(s)] = " " THEN rstrip(SubSeq(s, 1, Len(s) - 1)) ELSE s

\* str.strip()
strip(s) == rstrip(lstrip(s))

\* str.title(): a cased character is upper case after a character that is
\* not cased (or at the start), lower case after a cased one
title(s) ==
    [i \in 1..Len(s) |-> IF i = 1 \/ ~cased(s[i - 1]) THEN upperChar(s[i])
                         ELSE lowerChar(s[i])]

\* sub in s: s holds sub as a run of consecutive characters
contains(s, sub) ==
    \E k \in 0..(Len(s) - Len(sub)) : SubSeq(s, k + 1, k + Len(sub)) = sub

\* dict.get(field) is truthy: the field is there and is not the empty string
truthy(doc, field) == field \in DOMAIN doc /\ doc[field] # <<>>

\* ------------------------------------------------------------ dispatcher
\* manage_drivers: the document written by "Save Driver"
driver_doc(name, code, phone, fcm_token) ==
    [name |-> name, code |-> code, phone |-> phone, fcm_token |-> fcm_token]

\* manage_drivers: document(code).set(...) without merge replaces the document
set_driver(drv, code, doc) ==
    [c \in DOMAIN drv \cup {code} |-> IF c = code THEN doc ELSE drv[c]]

existing_other_field(dels, invoice_number) ==
    {i \in 1..Len(dels) :
        "invoice_number" \in DOMAIN dels[i] /\ dels[i].invoice_number = invoice_number}

existing_by_client(dels, invoice_number) ==
    {i \in 1..Len(dels) : "client" \in DOMAIN dels[i] /\ dels[i].client = invoice_number}

\* assign_delivery: where("invoice", "==", invoice_number).stream()
existing(dels, invoice_number) ==
    {i \in 1..Len(dels) : "invoice" \in DOMAIN dels[i] /\ dels[i].invoice = invoice_number}

\* assign_delivery: delivery_data
delivery_data(client_name, delivery_location, invoice_number, driver_choice, t) ==
    [client |-> client_name, location |-> delivery_location,
     invoice |-> invoice_number, driver_code |-> driver_choice,
     status |-> "Assigned", time |-> t]

insert_if_absent(dels, data) ==
    IF existing(dels, data.invoice) # {} THEN dels ELSE Append(dels, data)

\* assign_delivery: collection("deliveries").add(delivery_data)
insert(dels, data) == Append(dels, data)

\* assign_delivery: the thread send_push_notification_async starts
push(token, client_name, delivery_location, invoice_number) ==
    [to |-> token, title |-> "New Delivery Assigned",
     body |-> <<client_name, delivery_location>>,
     data |-> [invoice |-> invoice_number], state |-> "started"]

notify_unconditional(ps, drv, driver_choice, client_name, delivery_location, invoice_number) ==
    Append(ps, push(drv[driver_choice].fcm_token, client_name,
                    delivery_location, invoice_number))

\* assign_delivery: the notification step after the insert
notify(ps, drv, driver_choice, client_name, delivery_location, invoice_number) ==
    IF truthy(drv[driver_choice], "fcm_token")
    THEN Append(ps, push(drv[driver_choice].fcm_token, client_name,
                         delivery_location, invoice_number))
    ELSE ps

\* the characters of the status strings the two programs write
status_text(status) ==
    CASE status = "Assigned" -> <<"A", "s", "s", "i", "g", "n", "e", "d">>
      [] status = "pending" -> <<"p", "e", "n", "d", "i", "n", "g">>
      [] status = "accepted" -> <<"a", "c", "c", "e", "p", "t", "e", "d">>
      [] status = "rejected" -> <<"r", "e", "j", "e", "c", "t", "e", "d">>
      [] status = "in_transit" -> <<"i", "n", "_", "t", "r", "a", "n", "s", "i", "t">>
      [] status = "delivered" -> <<"d", "e", "l", "i", "v", "e", "r", "e", "d">>

\* the first option of the two select boxes of the audit view
All == <<"A", "l", "l">>

\* audit view: the status options that are always offered
fixed_statuses ==
    {<<"P", "e", "n", "d", "i", "n", "g">>,
     <<"I", "n", " ", "T", "r", "a", "n", "s", "i", "t">>,
     <<"D", "e", "l", "i", "v", "e", "r", "e", "d">>}

\* audit view: normalize_status
normalize_status(s) == title(strip(s))

orders_ascending(dels) ==
    LET ids == {i \in 1..Len(dels) : "time" \in DOMAIN dels[i]}
        n == Cardinality(ids)
    IN  {o \in [1..n -> ids] :
            /\ \A i, j \in 1..n : i # j => o[i] # o[j]
            /\ \A i, j \in 1..n : i < j => dels[o[i]].time <= dels[o[j]].time}

\* audit view: order_by("time", DESCENDING).stream(), as the ids of the
\* documents in the order read.  Documents of one time come in the order of
\* their generated ids, which is any order
orders(dels) ==
    LET ids == {i \in 1..Len(dels) : "time" \in DOMAIN dels[i]}
        n == Cardinality(ids)
    IN  {o \in [1..n -> ids] :
            /\ \A i, j \in 1..n : i # j => o[i] # o[j]
            /\ \A i, j \in 1..n : i < j => dels[o[i]].time >= dels[o[j]].time}

\* audit view: the options of "Filter by Status" besides "All"
all_statuses(dels) ==
    fixed_statuses
        \cup {normalize_status(status_text(dels[i].status)) : i \in 1..Len(dels)}

\* audit view: the options of "Filter by Driver"
drivers_list(dels) == {All} \cup {dels[i].driver_code : i \in 1..Len(dels)}

\* the ticks of the clock in a day
TicksPerDay == 2

\* audit view: .dt.date of a time
date(t) == t \div TicksPerDay

\* audit view: the value "Filter by Date Range" starts with, from the first
\* to the last date in the store
date_min_max(dels) ==
    LET dates == {date(dels[i].time) : i \in 1..Len(dels)}
    IN  <<CHOOSE d \in dates : \A e \in dates : d <= e,
          CHOOSE d \in dates : \A e \in dates : d >= e>>

\* audit view: the row passes the status filter
status_filter(dels, i, selected_status) ==
    title(strip(status_text(dels[i].status))) = selected_status

\* audit view: the rows shown, as ids in order, from the documents read in
\* order o and the values of the four filter widgets
df(dels, o, selected_status, selected_driver, date_range, search_in) ==
    LET search_text == lower(strip(search_in))
        keep(i) ==
            /\ selected_status # All => status_filter(dels, i, selected_status)
            /\ selected_driver # All => dels[i].driver_code = selected_driver
            /\ Len(date_range) = 2 =>
                  /\ date(dels[i].time) >= date_range[1]
                  /\ date(dels[i].time) <= date_range[2]
            /\ search_text # <<>> =>
                  \/ contains(lower(dels[i].client), search_text)
                  \/ contains(lower(dels[i].invoice), search_text)
    IN  SelectSeq(o, keep)

\* ---------------------------------------------------------------- driver
\* the driver's token registration: set(..., merge=True)
merge_driver(drv, code, fields) ==
    [c \in DOMAIN drv \cup {code} |->
        IF c = code THEN (IF c \in DOMAIN drv THEN fields @@ drv[c] ELSE fields)
        ELSE drv[c]]

register_unconditional(drv, driver_code, fcm_token, t) ==
    merge_driver(drv, driver_code, [fcm_token |-> fcm_token, last_seen |-> t])

\* the driver script's registration step
register(drv, driver_code, fcm_token, t) ==
    IF fcm_token # <<>>
    THEN merge_driver(drv, driver_code, [fcm_token |-> fcm_token, last_seen |-> t])
    ELSE drv

\* the statuses the driver's query asks for
OpenStatuses == {"pending", "accepted", "in_transit"}

\* the driver's query: the documents of this driver in an open status
query(dels, driver_code) ==
    LET ids == {i \in 1..Len(dels) : /\ dels[i].driver_code = driver_code
                                      /\ dels[i].status \in OpenStatuses}
    IN  [i \in ids |-> dels[i]]

stamp_whole_map(doc, key, t) == (key :> t)

\* update({"timestamps.<key>": t}): the nested map with this entry written
stamp(doc, key, t) ==
    IF "timestamps" \in DOMAIN doc THEN (key :> t) @@ doc.timestamps ELSE (key :> t)

\* the update of the Accept button
accept(doc, t) ==
    [status |-> "accepted", timestamps |-> stamp(doc, "accepted", t)] @@ doc

reject_without_reason(doc, reason, t) ==
    [status |-> "rejected", timestamps |-> stamp(doc, "rejected", t)] @@ doc

reject_verbatim(doc, reason, t) ==
    [status |-> "rejected", rejection_reason |-> reason,
     timestamps |-> stamp(doc, "rejected", t)] @@ doc

\* the update of the Reject / Submit buttons
reject(doc, reason, t) ==
    [status |-> "rejected", rejection_reason |-> strip(reason),
     timestamps |-> stamp(doc, "rejected", t)] @@ doc

in_transit_replacing(doc, t) ==
    [status |-> "in_transit", timestamps |-> stamp(doc, "in_transit", t)]

\* the update of the In Transit button
in_transit(doc, t) ==
    [status |-> "in_transit", timestamps |-> stamp(doc, "in_transit", t)] @@ doc

\* the update of the Delivered button
delivered(doc, t) ==
    [status |-> "delivered", timestamps |-> stamp(doc, "delivered", t)] @@ doc

submitted_unchecked(click) == click.submit

\* the Submit condition of a rejection
submitted(click) == click.submit /\ strip(click.reason) # <<>>

branch_unordered(docs, click) ==
    IF click.kind = "none" \/ click.id \notin DOMAIN docs THEN "none"
    ELSE LET data == docs[click.id]
         IN  CASE data.status = "pending" /\ click.kind = "accept" -> "accept"
               [] data.status = "pending" /\ click.kind = "reject" /\ submitted(click) ->
                    "reject"
               [] click.kind = "transit" -> "in_transit"
               [] click.kind = "delivered" -> "delivered"
               [] OTHER -> "none"

\* the button loop: the update the pressed button leads to, by the status the
\* query read for its delivery ("none": no branch reads the button)
branch(docs, click) ==
    IF click.kind = "none" \/ click.id \notin DOMAIN docs THEN "none"
    ELSE LET data == docs[click.id]
         IN  CASE data.status = "pending" /\ click.kind = "accept" -> "accept"
               [] data.status = "pending" /\ click.kind = "reject" /\ submitted(click) ->
                    "reject"
               [] data.status = "accepted" /\ click.kind = "transit" -> "in_transit"
               [] data.status = "in_transit" /\ click.kind = "delivered" -> "delivered"
               [] OTHER -> "none"

press_compare_and_swap(dels, docs, click, t) ==
    LET b == IF click.kind # "none" /\ click.id \in DOMAIN docs
                  /\ dels[click.id].status = docs[click.id].status
             THEN branch(docs, click) ELSE "none"
    IN  CASE b = "accept" -> [dels EXCEPT ![click.id] = accept(@, t)]
          [] b = "reject" -> [dels EXCEPT ![click.id] = reject(@, click.reason, t)]
          [] b = "in_transit" -> [dels EXCEPT ![click.id] = in_transit(@, t)]
          [] b = "delivered" -> [dels EXCEPT ![click.id] = delivered(@, t)]
          [] OTHER -> dels

\* the button loop: the update is applied to the stored document
press(dels, docs, click, t) ==
    LET b == branch(docs, click)
    IN  CASE b = "accept" -> [dels EXCEPT ![click.id] = accept(@, t)]
          [] b = "reject" -> [dels EXCEPT ![click.id] = reject(@, click.reason, t)]
          [] b = "in_transit" -> [dels EXCEPT ![click.id] = in_transit(@, t)]
          [] b = "delivered" -> [dels EXCEPT ![click.id] = delivered(@, t)]
          [] OTHER -> dels

\* of the documents a query returned, what the button loop decides on
statuses(docs) == [i \in DOMAIN docs |-> [status |-> docs[i].status]]

driver_pushes_on_accept(ps, docs, click) ==
    IF branch(docs, click) = "accept"
    THEN Append(ps, [to |-> <<"t">>, title |-> "Delivery Accepted", body |-> <<>>,
                     data |-> [invoice |-> <<>>], state |-> "started"])
    ELSE ps

\* the notifications a run of the driver's dashboard starts: send_fcm is
\* defined there, and no button calls it
driver_pushes(ps, docs, click) == ps

\* the buttons a driver may have pressed: none, or one of a delivery's
\* buttons; with Reject, Submit pressed as well or not, and the reason typed
Clicks ==
    {[kind |-> "none"]}
    \cup {[kind |-> k, id |-> i] : k \in {"accept", "transit", "delivered"},
                                    i \in 1..Len(deliveries)}
    \cup {[kind |-> "reject", id |-> i, submit |-> FALSE, reason |-> <<>>] :
              i \in 1..Len(deliveries)}
    \cup {[kind |-> "reject", id |-> i, submit |-> TRUE, reason |-> r] :
              i \in 1..Len(deliveries), r \in ReasonInputs}

\* ------------------------------------------------------------------ state
Codes == {lower(strip(c)) : c \in CodeInputs} \ {<<>>}

\* a delivery waiting for its driver, as the driver's dashboard reads it
pending_delivery(invoice_number, driver_code) ==
    [client |-> <<"c">>, location |-> <<"l">>, invoice |-> invoice_number,
     driver_code |-> driver_code, status |-> "pending", time |-> 0]

Idle == [pc |-> "idle"]

\* the store the two programs are started on: no drivers, and at most one
\* delivery already waiting for its driver
Init ==
    /\ drivers = <<>>
    /\ \E n \in 0..1, c \in Codes :
          deliveries = [i \in 1..n |-> pending_delivery(<<"1">>, c)]
    /\ pushes = <<>>
    /\ now = 0
    /\ run = [s \in Sessions |-> Idle]
    /\ last = [page |-> "start"]

\* ---------------------------------------------------------------- actions
\* datetime.now() moves on
Tick ==
    /\ now < MaxTime
    /\ now' = now + 1
    /\ UNCHANGED <<drivers, deliveries, pushes, run, last>>

\* manage_drivers with "Save Driver" pressed
SaveDriver(name_in, code_in, phone_in, token_in) ==
    LET name == strip(name_in)
        code == lower(strip(code_in))
        phone == strip(phone_in)
        fcm_token == strip(token_in)
    IN  /\ IF name = <<>> \/ code = <<>>
           THEN /\ last' = [page |-> "drivers", code |-> code,
                            msg |-> "Driver Name and Code are required."]
                /\ UNCHANGED drivers
           ELSE /\ drivers' = set_driver(drivers, code,
                                         driver_doc(name, code, phone, fcm_token))
                /\ last' = [page |-> "drivers", code |-> code,
                            msg |-> "Driver saved successfully!"]
        /\ UNCHANGED <<deliveries, pushes, now, run>>

\* assign_delivery with no driver in the store: the page stops at the warning
AssignNoDrivers ==
    /\ DOMAIN drivers = {}
    /\ last' = [page |-> "assign", msg |-> "No drivers available. Please add drivers first."]
    /\ UNCHANGED <<drivers, deliveries, pushes, now, run>>

\* assign_delivery with "Assign Delivery" pressed
AssignDelivery(client_name, delivery_location, invoice_in, driver_choice) ==
    LET invoice_number == strip(invoice_in)
        shown(msg) == [page |-> "assign", client |-> client_name,
                       location |-> delivery_location, invoice |-> invoice_number,
                       driver |-> driver_choice, msg |-> msg]
    IN  /\ driver_choice \in DOMAIN drivers
        /\ IF client_name = <<>> \/ delivery_location = <<>> \/ invoice_number = <<>>
           THEN /\ last' = shown("Please fill all delivery details.")
                /\ UNCHANGED <<deliveries, pushes>>
           ELSE IF existing(deliveries, invoice_number) # {}
           THEN /\ last' = shown("Invoice number already exists!")
                /\ UNCHANGED <<deliveries, pushes>>
           ELSE /\ Len(deliveries) < MaxDeliveries
                /\ deliveries' = Append(deliveries,
                       delivery_data(client_name, delivery_location,
                                     invoice_number, driver_choice, now))
                /\ pushes' = notify(pushes, drivers, driver_choice, client_name,
                                    delivery_location, invoice_number)
                /\ last' = shown("Delivery assigned!")
        /\ UNCHANGED <<drivers, now, run>>

\* the worker of a notification thread: the post answers or raises, and
\* either way only a line is printed
PushWorker(i, outcome) ==
    /\ i \in 1..Len(pushes)
    /\ pushes[i].state = "started"
    /\ pushes' = [pushes EXCEPT ![i].state = outcome]
    /\ UNCHANGED <<drivers, deliveries, now, run, last>>

\* what a run of the driver's dashboard read: the code entered and, when the
\* button loop was reached, the button pressed on one of the queried deliveries
driver_run(driver_code, docs, click) ==
    IF driver_code = <<>> THEN [page |-> "driver", code |-> driver_code]
    ELSE IF DOMAIN docs = {}
    THEN [page |-> "driver", code |-> driver_code, msg |-> "No deliveries assigned."]
    ELSE [page |-> "driver", code |-> driver_code,
          click |-> IF click.kind # "none" /\ click.id \in DOMAIN docs
                    THEN click ELSE [kind |-> "none"]]

\* one run of the driver's dashboard, from the inputs to the end of the loop
DriverRun(code_in, token_in, click) ==
    LET driver_code == lower(strip(code_in))
        fcm_token == strip(token_in)
        docs == query(deliveries, driver_code)
    IN  /\ last' = driver_run(driver_code, docs, click)
        /\ IF driver_code = <<>>
           THEN UNCHANGED <<drivers, deliveries>>
           ELSE /\ drivers' = register(drivers, driver_code, fcm_token, now)
                /\ deliveries' = press(deliveries, docs, click, now)
        /\ pushes' = driver_pushes(pushes, docs, click)
        /\ UNCHANGED <<now, run>>

\* the first half of a run of the driver's dashboard in session s: the inputs,
\* the registration and the query.  The run goes on to the button loop in a
\* later step when the pressed button leads to an update; otherwise the loop
\* writes nothing and the run ends here
DriverQuery(s, code_in, token_in, click) ==
    LET driver_code == lower(strip(code_in))
        fcm_token == strip(token_in)
        docs == query(deliveries, driver_code)
    IN  /\ run[s] = Idle
        /\ drivers' = IF driver_code = <<>> THEN drivers
                      ELSE register(drivers, driver_code, fcm_token, now)
        /\ IF driver_code # <<>> /\ branch(docs, click) # "none"
           THEN /\ run' = [run EXCEPT ![s] = [pc |-> "queried", code |-> driver_code,
                                              docs |-> statuses(docs), click |-> click]]
                /\ UNCHANGED last
           ELSE /\ last' = driver_run(driver_code, docs, click)
                /\ UNCHANGED run
        /\ UNCHANGED <<deliveries, pushes, now>>

\* the second half of the run of session s: the button loop over the documents
\* the query returned, writing to the store as it is now
DriverAct(s) ==
    /\ run[s] # Idle
    /\ deliveries' = press(deliveries, run[s].docs, run[s].click, now)
    /\ pushes' = driver_pushes(pushes, run[s].docs, run[s].click)
    /\ last' = driver_run(run[s].code, run[s].docs, run[s].click)
    /\ run' = [run EXCEPT ![s] = Idle]
    /\ UNCHANGED <<drivers, now>>

\* every script run is one step
Next ==
    \/ Tick
    \/ \E n \in NameInputs, c \in CodeInputs, p \in PhoneInputs, t \in TokenInputs :
          SaveDriver(n, c, p, t)
    \/ AssignNoDrivers
    \/ \E c \in ClientInputs, l \in LocationInputs, i \in InvoiceInputs,
          d \in DOMAIN drivers : AssignDelivery(c, l, i, d)
    \/ \E i \in 1..Len(pushes), o \in {"sent", "error"} : PushWorker(i, o)
    \/ \E c \in CodeInputs, t \in TokenInputs, k \in Clicks : DriverRun(c, t, k)

Spec == Init /\ [][Next]_vars

\* the sessions of the driver's dashboard run concurrently: the query and the
\* button loop of a run are two steps, and the steps of other sessions may
\* fall between them
NextRace ==
    \/ Tick
    \/ \E s \in Sessions, c \in CodeInputs, t \in TokenInputs, k \in Clicks :
          DriverQuery(s, c, t, k)
    \/ \E s \in Sessions : DriverAct(s)

SpecRace == Init /\ [][NextRace]_vars

\* what a run of assign_delivery holds once its inputs passed the validation
\* and the existence check
checked(client_name, delivery_location, invoice_number, driver_choice) ==
    [pc |-> "checked", client |-> client_name, location |-> delivery_location,
     invoice |-> invoice_number, driver |-> driver_choice]

\* the first half of a run of assign_delivery in dispatcher session s, with
\* "Assign Delivery" pressed: the inputs, the validation and the existence
\* check.  A run that passes goes on to the insert in a later step
AssignCheck(s, client_name, delivery_location, invoice_in, driver_choice) ==
    LET invoice_number == strip(invoice_in)
        page(msg) == [page |-> "assign", client |-> client_name,
                      location |-> delivery_location, invoice |-> invoice_number,
                      driver |-> driver_choice, msg |-> msg]
    IN  /\ run[s] = Idle
        /\ driver_choice \in DOMAIN drivers
        /\ IF client_name = <<>> \/ delivery_location = <<>> \/ invoice_number = <<>>
           THEN /\ last' = page("Please fill all delivery details.")
                /\ UNCHANGED run
           ELSE IF existing(deliveries, invoice_number) # {}
           THEN /\ last' = page("Invoice number already exists!")
                /\ UNCHANGED run
           ELSE /\ Len(deliveries) + Cardinality({x \in Sessions : run[x] # Idle})
                       < MaxDeliveries
                /\ run' = [run EXCEPT ![s] = checked(client_name, delivery_location,
                                                     invoice_number, driver_choice)]
                /\ UNCHANGED last
        /\ UNCHANGED <<drivers, deliveries, pushes, now>>

\* the second half of the run of session s: the record is built and added,
\* the driver's token is looked up and the notification started
AssignInsert(s) ==
    /\ run[s] # Idle
    /\ deliveries' = insert(deliveries,
                            delivery_data(run[s].client, run[s].location,
                                          run[s].invoice, run[s].driver, now))
    /\ pushes' = notify(pushes, drivers, run[s].driver, run[s].client,
                        run[s].location, run[s].invoice)
    /\ last' = [page |-> "assign", client |-> run[s].client,
                location |-> run[s].location, invoice |-> run[s].invoice,
                driver |-> run[s].driver, msg |-> "Delivery assigned!"]
    /\ run' = [run EXCEPT ![s] = Idle]
    /\ UNCHANGED <<drivers, now>>

\* the sessions of the dispatcher run concurrently: the existence check and
\* the insert of a run of assign_delivery are two steps, and the steps of
\* other sessions may fall between them
NextCreateRace ==
    \/ Tick
    \/ \E n \in NameInputs, c \in CodeInputs, p \in PhoneInputs, t \in TokenInputs :
          SaveDriver(n, c, p, t)
    \/ \E s \in Sessions, c \in ClientInputs, l \in LocationInputs,
          i \in InvoiceInputs, d \in DOMAIN drivers : AssignCheck(s, c, l, i, d)
    \/ \E s \in Sessions : AssignInsert(s)

SpecCreateRace == Init /\ [][NextCreateRace]_vars

\* ------------------------------------------------------------------ claims
\* C1: when createDelivery calls run one after another (each call's existence
\* check and insert in one step), no two delivery records in the store share
\* an invoice number, in every reachable state.
C1_UniqueInvoices ==
    \A i, j \in 1..Len(deliveries) :
        deliveries[i].invoice = deliveries[j].invoice => i = j

\* a second delivery has just been created beside another one
C1_Witness ==
    /\ Len(deliveries) >= 2
    /\ last.page = "assign" /\ last.msg = "Delivery assigned!"
    /\ deliveries[Len(deliveries)].invoice = last.invoice

\* the transition table: the status an action leads to from a status, and
\* the status itself for every pair the table does not list
Table(status, kind) ==
    CASE status = "pending" /\ kind = "accept" -> "accepted"
      [] status = "pending" /\ kind = "reject" -> "rejected"
      [] status = "accepted" /\ kind = "transit" -> "in_transit"
      [] status = "in_transit" /\ kind = "delivered" -> "delivered"
      [] OTHER -> status

\* the run that ends with this step read a button of delivery id as pressed
Pressed(id) ==
    /\ last'.page = "driver" /\ "click" \in DOMAIN last'
    /\ last'.click.kind # "none" /\ last'.click.id = id

\* a rejection states its reason: Submit is pressed and the reason is not blank
Reasoned(k) ==
    k.kind = "reject" => (k.submit /\ \E n \in 1..Len(k.reason) : k.reason[n] # " ")

\* C2: a transition succeeds and changes the status exactly for the pairs
\* pending/Accept -> accepted, pending/Reject(reason) -> rejected,
\* accepted/MarkInTransit -> in_transit, in_transit/MarkDelivered -> delivered;
\* for every other pair of status and action, and in every other step, the
\* delivery is left as it is.
C2_TransitionTable ==
    [][\A id \in 1..Len(deliveries) :
          IF /\ Pressed(id) /\ Reasoned(last'.click)
             /\ Table(deliveries[id].status, last'.click.kind) # deliveries[id].status
          THEN deliveries'[id].status = Table(deliveries[id].status, last'.click.kind)
          ELSE deliveries'[id] = deliveries[id]]_vars

\* the step is a run of assign_delivery with "Assign Delivery" pressed, on
\* the inputs the page shows
AssignStep ==
    /\ last'.page = "assign" /\ "invoice" \in DOMAIN last'
    /\ AssignDelivery(last'.client, last'.location, last'.invoice, last'.driver)

\* the inputs of the assign step name a client, a location and an invoice
Filled == last'.client # <<>> /\ last'.location # <<>> /\ last'.invoice # <<>>

\* the invoice number of the assign step is held by a delivery in the store
Held == \E k \in 1..Len(deliveries) : deliveries[k].invoice = last'.invoice

\* a delivery that was accepted and marked in transit, and on which Accept
\* was then pressed again and refused
C2_Witness ==
    /\ last.page = "driver" /\ "click" \in DOMAIN last
    /\ last.click.kind = "accept"
    /\ deliveries[last.click.id].status = "in_transit"
    /\ DOMAIN deliveries[last.click.id].timestamps = {"accepted", "in_transit"}

\* C3 as stated: in every behaviour, with any number of sessions at work on
\* the store, once a delivery's status is delivered or rejected it never
\* changes again.
C3_TerminalStays ==
    [][\A id \in 1..Len(deliveries) :
          deliveries[id].status \in {"delivered", "rejected"}
             => deliveries'[id].status = deliveries[id].status]_vars

C5_CreatedThenAccepted ==
    [][(AssignStep /\ last'.msg = "Delivery assigned!") =>
          LET id == Len(deliveries')
              after == press(deliveries', query(deliveries', last'.driver),
                             [kind |-> "accept", id |-> id], now')
          IN  /\ deliveries'[id].status = "pending"
              /\ after[id].status = "accepted"
              /\ "timestamps" \in DOMAIN after[id]
              /\ "accepted" \in DOMAIN after[id].timestamps]_vars

\* C6: a Reject whose reason is empty or blank leaves the store's deliveries
\* as they are: the status stays pending, no rejection reason and no
\* timestamp is written.
C6_BlankReasonRefused ==
    [][\A id \in 1..Len(deliveries) :
          (/\ Pressed(id) /\ last'.click.kind = "reject"
           /\ \A n \in 1..Len(last'.click.reason) : last'.click.reason[n] = " ")
          => deliveries' = deliveries]_vars

\* Reject and Submit were pressed with a blank reason on a pending delivery
C6_Witness ==
    /\ last.page = "driver" /\ "click" \in DOMAIN last
    /\ last.click.kind = "reject" /\ last.click.submit
    /\ last.click.reason = <<" ">>
    /\ deliveries[last.click.id].status = "pending"
    /\ "timestamps" \notin DOMAIN deliveries[last.click.id]

\* the step is a submitted rejection, with a reason that is not blank, of the
\* pending delivery id
RejectStep(id) ==
    /\ Pressed(id) /\ last'.click.kind = "reject" /\ Reasoned(last'.click)
    /\ deliveries[id].status = "pending"

\* C7 as stated: a Reject with a non-empty reason on a pending delivery sets
\* the status to rejected and stores the given reason verbatim.
C7_ReasonVerbatim ==
    [][\A id \in 1..Len(deliveries) : RejectStep(id) =>
          /\ deliveries'[id].status = "rejected"
          /\ deliveries'[id].rejection_reason = last'.click.reason]_vars

\* C7 amended: a Reject with a reason that is not blank on a pending delivery
\* sets the status to rejected and stores the given reason with its leading
\* and trailing whitespace removed.
C7_ReasonStripped ==
    [][\A id \in 1..Len(deliveries) : RejectStep(id) =>
          /\ deliveries'[id].status = "rejected"
          /\ deliveries'[id].rejection_reason = strip(last'.click.reason)]_vars

\* a rejection whose reason began with a blank, stored without it
C7_Witness ==
    /\ last.page = "driver" /\ "click" \in DOMAIN last
    /\ last.click.kind = "reject" /\ last.click.reason = <<" ", "r">>
    /\ deliveries[last.click.id].status = "rejected"
    /\ deliveries[last.click.id].rejection_reason = <<"r">>

\* C8: a createDelivery whose invoice number is already in the store fails
\* with the duplicate-invoice error and has no effect: no delivery is
\* inserted, no record is modified, no notification is started.
C8_DuplicateNoEffect ==
    [][(AssignStep /\ Filled /\ Held) =>
          /\ last'.msg = "Invoice number already exists!"
          /\ deliveries' = deliveries
          /\ pushes' = pushes
          /\ drivers' = drivers]_vars

\* a duplicate was refused for a driver who has a token on file
C8_Witness ==
    /\ last.page = "assign" /\ last.msg = "Invoice number already exists!"
    /\ truthy(drivers[last.driver], "fcm_token")
    /\ Cardinality({k \in 1..Len(deliveries) : deliveries[k].invoice = last.invoice}) = 1

\* C9: a successful createDelivery starts a notification to the assigned
\* driver if and only if the driver has a non-empty token on file; the
\* creation reports success with the record inserted in the same step, and
\* no outcome of a notification changes the deliveries or the message.
C9_NotifyBestEffort ==
    [][/\ (AssignStep /\ Filled /\ ~Held) =>
            /\ last'.msg = "Delivery assigned!"
            /\ Len(deliveries') = Len(deliveries) + 1
            /\ SubSeq(deliveries', 1, Len(deliveries)) = deliveries
            /\ deliveries'[Len(deliveries')].invoice = last'.invoice
            /\ IF "fcm_token" \in DOMAIN drivers[last'.driver]
                    /\ drivers[last'.driver].fcm_token # <<>>
               THEN /\ Len(pushes') = Len(pushes) + 1
                    /\ SubSeq(pushes', 1, Len(pushes)) = pushes
                    /\ pushes'[Len(pushes')].to = drivers[last'.driver].fcm_token
                    /\ pushes'[Len(pushes')].data.invoice = last'.invoice
                    /\ pushes'[Len(pushes')].state = "started"
               ELSE pushes' = pushes
       /\ (\E i \in 1..Len(pushes) : pushes'[i].state # pushes[i].state) =>
            (deliveries' = deliveries /\ last' = last)]_vars

\* the creation reported success and its record is in the store, and the
\* notification it started has failed
C9_Witness ==
    /\ last.page = "assign" /\ last.msg = "Delivery assigned!"
    /\ \E k \in 1..Len(deliveries) : deliveries[k].invoice = last.invoice
    /\ \E i \in 1..Len(pushes) :
          pushes[i].data.invoice = last.invoice /\ pushes[i].state = "error"

\* C10: no run of the driver's dashboard starts a notification: every
\* notification is started by a step that is a successful createDelivery,
\* and none is ever withdrawn.
C10_OnlyCreateNotifies ==
    [][/\ Len(pushes') >= Len(pushes)
       /\ Len(pushes') # Len(pushes) => (AssignStep /\ last'.msg = "Delivery assigned!")]_vars

\* a driver with a token on file accepted a delivery and no notification exists
C10_Witness ==
    /\ last.page = "driver" /\ "click" \in DOMAIN last
    /\ last.click.kind = "accept"
    /\ deliveries[last.click.id].status = "accepted"
    /\ last.code \in DOMAIN drivers /\ truthy(drivers[last.code], "fcm_token")
    /\ pushes = <<>>

\* the fields a step supplies to the upsert of driver record c: the four
\* fields of the dispatcher's form when the step saved driver c, the token
\* and the last-seen time when it was a run of driver c's dashboard
Supplied(c) ==
    IF last'.page = "drivers" /\ last'.code = c THEN {"name", "code", "phone", "fcm_token"}
    ELSE IF last'.page = "driver" /\ last'.code = c THEN {"fcm_token", "last_seen"}
    ELSE {}

\* C11 as stated: every upsert on an existing driver record, from the
\* dispatcher's driver form or from the driver's session, leaves every field
\* of the record that is not among the supplied fields with its previous
\* value.
C11_UpsertMerges ==
    [][\A c \in DOMAIN drivers : \A f \in DOMAIN drivers[c] \ Supplied(c) :
          /\ c \in DOMAIN drivers'
          /\ f \in DOMAIN drivers'[c]
          /\ drivers'[c][f] = drivers[c][f]]_vars

\* C12: when the existence check and the insert of createDelivery are
\* separate steps, a call that passed the check inserts its record whatever
\* the store holds by then, so two concurrent calls with one invoice number
\* both insert: a state where two delivery records share an invoice number
\* is reachable.
C12_InsertAfterStaleCheck ==
    [][\A s \in Sessions : (run[s] # Idle /\ run'[s] = Idle) =>
          /\ Len(deliveries') = Len(deliveries) + 1
          /\ SubSeq(deliveries', 1, Len(deliveries)) = deliveries
          /\ deliveries'[Len(deliveries')].invoice = run[s].invoice]_vars

\* two delivery records share one invoice number
C12_Witness ==
    \E i, j \in 1..Len(deliveries) :
        i # j /\ deliveries[i].invoice = deliveries[j].invoice

\* C13: a transition validates against the status its query read and its
\* write is not conditional on the stored status, so two concurrent
\* transitions on one delivery both pass the check and both write: each
\* write sets the status the table gives for the status read, and the status
\* that remains is the one written last.
C13_LastWriterWins ==
    [][\A s \in Sessions : (run[s] # Idle /\ run'[s] = Idle) =>
          LET k == run[s].click
              read == run[s].docs[k.id].status
          IN  /\ Table(read, k.kind) # read
              /\ deliveries'[k.id].status = Table(read, k.kind)]_vars

\* a delivery that a session rejected and another session, which had read it
\* as pending, accepted afterwards: both writes left their timestamp and the
\* status is the one of the later write
C13_Witness ==
    /\ last.page = "driver" /\ "click" \in DOMAIN last
    /\ last.click.kind = "accept"
    /\ deliveries[last.click.id].status = "accepted"
    /\ DOMAIN deliveries[last.click.id].timestamps = {"accepted", "rejected"}

\* C14: the listing with status "All", driver "All", the date range left as
\* it starts (or not completed) and no search text returns every delivery
\* record in the store exactly once, ordered by creation time descending.
C14_ListAll ==
    \A o \in orders(deliveries) :
        \A date_range \in {<<>>} \cup (IF deliveries = <<>> THEN {}
                                      ELSE {date_min_max(deliveries)}) :
            LET rows == df(deliveries, o, All, All, date_range, <<>>)
            IN  /\ Len(rows) = Len(deliveries)
                /\ \A id \in 1..Len(deliveries) :
                      Cardinality({k \in 1..Len(rows) : rows[k] = id}) = 1
                /\ \A i, j \in 1..Len(rows) :
                      i < j => deliveries[rows[i]].time >= deliveries[rows[j]].time

\* the audit view of a store whose second delivery is newer than its first:
\* the listing shows the second before the first
C14_Witness ==
    /\ DOMAIN drivers # {}
    /\ Len(deliveries) = 2
    /\ deliveries[1].time < deliveries[2].time
    /\ df(deliveries, CHOOSE o \in orders(deliveries) : TRUE, All, All,
          date_min_max(deliveries), <<>>) = <<2, 1>>

\* a status name without its letter case and with "_" read as a blank: the
\* form in which a stored status and an option of the filter name one status
plain(s) == [i \in 1..Len(s) |-> IF s[i] = "_" THEN " " ELSE lowerChar(s[i])]

\* C15 as stated: the listing with a status option other than "All" returns
\* exactly the deliveries whose status is the selected one: for every option
\* offered and every delivery in the store, the delivery is listed if and
\* only if its status and the option name one status.
C15_StatusFilter ==
    \A o \in orders(deliveries) : \A selected_status \in all_statuses(deliveries) :
        LET rows == df(deliveries, o, selected_status, All, <<>>, <<>>)
        IN  \A id \in 1..Len(deliveries) :
                (\E k \in 1..Len(rows) : rows[k] = id)
                    <=> plain(status_text(deliveries[id].status)) = plain(selected_status)

\* the statuses a delivery reaches by a transition
Transitioned == {"accepted", "in_transit", "delivered", "rejected"}

\* the statuses a delivery in this status has passed through by transitions
ReachedBy(status) ==
    CASE status = "accepted" -> {"accepted"}
      [] status = "in_transit" -> {"accepted", "in_transit"}
      [] status = "delivered" -> {"accepted", "in_transit", "delivered"}
      [] status = "rejected" -> {"rejected"}
      [] OTHER -> {}

\* C16: every step that changes a delivery's status to s writes
\* timestamps[s], with the time of the step, in the same step, and no step
\* removes an entry of timestamps; so after every step each delivery whose
\* status is accepted, in_transit, delivered or rejected holds a timestamps
\* entry for its status and for every status it has passed through.
C16_TimestampsFollowStatus ==
    [][\A id \in 1..Len(deliveries) :
          LET old == deliveries[id]
              new == deliveries'[id]
          IN  /\ new.status # old.status =>
                    /\ new.status \in Transitioned
                    /\ "timestamps" \in DOMAIN new
                    /\ new.status \in DOMAIN new.timestamps
                    /\ new.timestamps[new.status] = now
              /\ "timestamps" \in DOMAIN old =>
                    /\ "timestamps" \in DOMAIN new
                    /\ DOMAIN old.timestamps \subseteq DOMAIN new.timestamps
              /\ new.status \in Transitioned =>
                    /\ "timestamps" \in DOMAIN new
                    /\ ReachedBy(new.status) \subseteq DOMAIN new.timestamps]_vars

\* a delivered delivery that holds the three timestamps of its way, the
\* last one later than the first
C16_Witness ==
    \E id \in 1..Len(deliveries) :
        /\ deliveries[id].status = "delivered"
        /\ DOMAIN deliveries[id].timestamps = {"accepted", "in_transit", "delivered"}
        /\ deliveries[id].timestamps.accepted < deliveries[id].timestamps.delivered

\* the fields a delivery is created with, besides its status
Immutable == {"client", "location", "invoice", "driver_code", "time"}

\* the fields the updates of the driver's buttons write
Written == {"status", "timestamps", "rejection_reason"}

\* C17: no step removes a delivery record or changes the client, location,
\* invoice, driver or creation time of one; and a step that changes the
\* status of a delivery writes nothing but the status, the timestamps and
\* the rejection reason of that delivery: every other field of it, every
\* other delivery record, the notifications and the driver records (as the
\* registration at the start of the run left them) are unchanged.
C17_TransitionFrame ==
    [][\/ deliveries' = deliveries
       \/ /\ Len(deliveries') >= Len(deliveries)
          /\ \A id \in 1..Len(deliveries) : \A f \in Immutable :
                f \in DOMAIN deliveries'[id] /\ deliveries'[id][f] = deliveries[id][f]
          /\ \A id \in 1..Len(deliveries) :
                deliveries'[id].status # deliveries[id].status =>
                   /\ Len(deliveries') = Len(deliveries)
                   /\ \A j \in 1..Len(deliveries) : j # id => deliveries'[j] = deliveries[j]
                   /\ DOMAIN deliveries'[id] \subseteq DOMAIN deliveries[id] \cup Written
                   /\ \A f \in DOMAIN deliveries[id] \ Written :
                         f \in DOMAIN deliveries'[id] /\ deliveries'[id][f] = deliveries[id][f]
                   /\ pushes' = pushes
                   /\ \E t \in TokenInputs :
                         drivers' = register(drivers, last'.code, strip(t), now)]_vars

\* the first delivery was taken to delivered while a second one, created by
\* the dispatcher, stands beside it as it was created
C17_Witness ==
    /\ Len(deliveries) = 2
    /\ last.page = "driver" /\ "click" \in DOMAIN last
    /\ last.click.kind = "delivered" /\ last.click.id = 1
    /\ deliveries[1].status = "delivered"
    /\ deliveries[1].invoice = <<"1">> /\ deliveries[1].time = 0
    /\ deliveries[2].status = "Assigned"
    /\ DOMAIN deliveries[2] = Immutable \cup {"status"}

\* C18 as stated: an upsert with an empty driver identifier writes nothing,
\* from the dispatcher's driver form and from the driver's session, and
\* every upsert with a non-empty identifier succeeds: the form reports the
\* driver saved and the record is in the store.
C18_OnlyEmptyIdRefused ==
    [][/\ (last'.page \in {"drivers", "driver"} /\ last'.code = <<>>) => drivers' = drivers
       /\ (last'.page = "drivers" /\ last'.code # <<>>) =>
             /\ last'.msg = "Driver saved successfully!"
             /\ last'.code \in DOMAIN drivers']_vars

\* C18 amended: an upsert whose identifier is empty once stripped writes
\* nothing, from the form and from the driver's session.  The dispatcher's
\* form refuses an empty name as well and writes nothing then; with a name
\* and an identifier it saves the record.  A driver's session with an
\* identifier writes the record when a token is given and nothing otherwise.
C18_EmptyIdOrNameRefused ==
    [][\/ last'.page # "drivers" /\ drivers' = drivers
       \/ /\ (last'.page \in {"drivers", "driver"} /\ last'.code = <<>>) => drivers' = drivers
          /\ last'.page = "drivers" =>
                \A n \in NameInputs, p \in PhoneInputs, t \in TokenInputs :
                   SaveDriver(n, last'.code, p, t) =>
                      IF strip(n) = <<>> \/ last'.code = <<>>
                      THEN /\ last'.msg = "Driver Name and Code are required."
                           /\ drivers' = drivers
                      ELSE /\ last'.msg = "Driver saved successfully!"
                           /\ last'.code \in DOMAIN drivers'
                           /\ drivers'[last'.code].name = strip(n)
                           /\ drivers'[last'.code].code = last'.code
                           /\ \A c \in DOMAIN drivers \ {last'.code} :
                                 c \in DOMAIN drivers' /\ drivers'[c] = drivers[c]
          /\ (last'.page = "driver" /\ last'.code # <<>>) =>
                \/ drivers' = drivers
                \/ /\ last'.code \in DOMAIN drivers'
                   /\ drivers'[last'.code].fcm_token # <<>>
                   /\ drivers'[last'.code].last_seen = now
                   /\ \A c \in DOMAIN drivers \ {last'.code} :
                         c \in DOMAIN drivers' /\ drivers'[c] = drivers[c]]_vars

\* the form was sent with an identifier and no name: it was refused and the
\* identifier has no record
C18_Witness ==
    /\ last.page = "drivers" /\ last.code # <<>>
    /\ last.msg = "Driver Name and Code are required."
    /\ last.code \notin DOMAIN drivers

\* C19 as stated: in every reachable state every delivery whose status is
\* not delivered or rejected is offered to its assigned driver with at least
\* one enabled action: the query of the driver's dashboard returns it and
\* one of its buttons leads to an update.
C19_OfferedToDriver ==
    \A id \in 1..Len(deliveries) :
        deliveries[id].status \notin {"delivered", "rejected"} =>
            LET docs == query(deliveries, deliveries[id].driver_code)
            IN  /\ id \in DOMAIN docs
                /\ \E k \in Clicks : /\ k.kind # "none" /\ k.id = id
                                     /\ branch(docs, k) # "none"

\* C20 as stated: in every reachable state every record of the drivers
\* collection has a name and a code field, which the dispatcher's driver
\* listing reads of every record.
C20_NameAndCode ==
    \A c \in DOMAIN drivers : {"name", "code"} \subseteq DOMAIN drivers[c]

====
